---- MODULE Spec2Model ----
(***************************************************************************)
(* A model of the holiday/birthday calendar (src/src/App.tsx,              *)
(* src/src/people.ts): the scrollable window of day rows, the yearly       *)
(* recurrence of birthdays and death anniversaries, and the per-day event  *)
(* store that is mirrored into localStorage.                               *)
(*                                                                         *)
(* A JavaScript Date that sits on a local midnight is modelled by its day  *)
(* number t (days since 1970-01-01); getTime() orders dates as t does.     *)
(***************************************************************************)
EXTENDS Integers, Sequences, FiniteSets, TLC

VARIABLES people, today, startDay, shownDays, touchStart, eventMap, localStorage, modal, form, lastOp

vars == <<people, today, startDay, shownDays, touchStart, eventMap, localStorage, modal, form, lastOp>>

---------------------------------------------------------------------------
(* Bounds of the model.                                                    *)

\* A wheel delta is a double: the model keeps 1/Q of a day, so shownDays
\* holds Q times the value of the React state.
Q == 2
\* The window start is followed at most MaxShift days away from the session's today.
MaxShift == 2
\* At most MaxEvents events are stored in the whole map.
MaxEvents == 2

---------------------------------------------------------------------------
(* JavaScript Date, on local midnights.                                    *)

\* new Date(year, monthIndex, day): monthIndex is 0-based.
NewDate(year, monthIndex, day) ==
  LET m   == monthIndex + 1
      yy  == IF m <= 2 THEN year - 1 ELSE year
      era == yy \div 400
      yoe == yy - era * 400
      mp  == IF m > 2 THEN m - 3 ELSE m + 9
      doy == (153 * mp + 2) \div 5 + day - 1
      doe == yoe * 365 + yoe \div 4 - yoe \div 100 + doy
  IN  era * 146097 + doe - 719468

\* The calendar fields of day number t: year, month (0-based, as getMonth), date.
Civil(t) ==
  LET z   == t + 719468
      era == z \div 146097
      doe == z - era * 146097
      yoe == (doe - doe \div 1460 + doe \div 36524 - doe \div 146096) \div 365
      doy == doe - (365 * yoe + yoe \div 4 - yoe \div 100)
      mp  == (5 * doy + 2) \div 153
      d   == doy - (153 * mp + 2) \div 5 + 1
      m   == IF mp < 10 THEN mp + 3 ELSE mp - 9
  IN  [year |-> yoe + era * 400 + (IF m <= 2 THEN 1 ELSE 0), month |-> m - 1, date |-> d]

getFullYear(t) == Civil(t).year
getMonth(t) == Civil(t).month
getDate(t) == Civil(t).date
\* 1970-01-01 was a Thursday (4).
getDay(t) == (t + 4) % 7
getTime(t) == t

\* Date.prototype.toString() of a local midnight: weekday, month, day and year
\* vary with the date; the time of day and the zone are the same all session.
toString(t) == <<getDay(t), getMonth(t), getDate(t), getFullYear(t)>>

\* ./date addDays: n days after date, across month and year ends.
addDays(date, n) == date + n

\* Math.round(a / b) for b > 0: the nearest integer, a half rounds up.
MathRound(a, b) == (2 * a + b) \div (2 * b)

---------------------------------------------------------------------------
(* src/src/people.ts: the tracked people.                                  *)

Person(name, birthday) == [name |-> name, birthday |-> birthday]
DeadPerson(name, birthday, deathDay) ==
  [name |-> name, birthday |-> birthday, deathDay |-> deathDay]

\* The list of the repository.
RepositoryPeople ==
  << Person("Daniel Bartsch", NewDate(1996, 0, 9)),
     DeadPerson("Wolfgang Amadeus Mozart", NewDate(1756, 0, 27), NewDate(1791, 11, 5)) >>

\* Other lists a configuration may hold: a death on the birthday's month and
\* day, a birth after the first displayed days, a leap-day birth and death.
SameDayPeople ==
  << DeadPerson("P", NewDate(1990, 2, 5), NewDate(2020, 2, 5)),
     Person("R", NewDate(2024, 2, 5)) >>

LeapDayPeople ==
  << Person("L", NewDate(1992, 1, 29)),
     DeadPerson("M", NewDate(1988, 1, 29), NewDate(2020, 1, 29)) >>

PeopleLists == {RepositoryPeople, SameDayPeople, LeapDayPeople}

\* The days a session may start on (getDateWithoutTime(new Date())).
Todays ==
  { NewDate(2019, 11, 1), NewDate(2020, 1, 1), NewDate(2023, 1, 1), NewDate(2024, 1, 1) }

hasDeathDay(person) == "deathDay" \in DOMAIN person

---------------------------------------------------------------------------
(* App: the window of day rows.                                            *)

\* Array.from({ length: shownDays }): ToLength drops the fraction.
rowCount == shownDays \div Q

\* The date of row index (0-based).
rowDate(index) == addDays(startDay, index)

\* The rendered rows, in order.
rows == [i \in 1..rowCount |-> rowDate(i - 1)]

\* isBirthday with the day of the death still counted to the life.
isBirthdayUntilDeathDay(person, date) ==
  /\ getMonth(person.birthday) = getMonth(date)
  /\ getDate(person.birthday) = getDate(date)
  /\ getFullYear(person.birthday) <= getFullYear(date)
  /\ (~hasDeathDay(person) \/ getTime(person.deathDay) >= getTime(date))

\* The birthday filter of a row.
isBirthday(person, date) ==
  /\ getMonth(person.birthday) = getMonth(date)
  /\ getDate(person.birthday) = getDate(date)
  /\ getFullYear(person.birthday) <= getFullYear(date)
  /\ (~hasDeathDay(person) \/ getTime(person.deathDay) > getTime(date))

todaysBirthdays(date) == SelectSeq(people, LAMBDA person : isBirthday(person, date))

\* isDeathDay from the year after the death on.
isDeathDayInLaterYears(person, date) ==
  /\ hasDeathDay(person)
  /\ getMonth(person.deathDay) = getMonth(date)
  /\ getDate(person.deathDay) = getDate(date)
  /\ getFullYear(person.deathDay) < getFullYear(date)

\* The death anniversary filter of a row.
isDeathDay(person, date) ==
  /\ hasDeathDay(person)
  /\ getMonth(person.deathDay) = getMonth(date)
  /\ getDate(person.deathDay) = getDate(date)
  /\ getFullYear(person.deathDay) <= getFullYear(date)

todaysDeaths(date) == SelectSeq(people, LAMBDA person : isDeathDay(person, date))

\* The cell texts: name and years.
birthdayCell(date) ==
  [i \in 1..Len(todaysBirthdays(date)) |->
     LET person == todaysBirthdays(date)[i]
     IN  [name |-> person.name,
          years |-> getFullYear(date) - getFullYear(person.birthday)]]

deathCell(date) ==
  [i \in 1..Len(todaysDeaths(date)) |->
     LET person == todaysDeaths(date)[i]
     IN  [name |-> person.name,
          years |-> getFullYear(date) - getFullYear(person.deathDay)]]

---------------------------------------------------------------------------
(* The event store: eventMap and its copy in localStorage.                 *)

\* JavaScript's undefined, where a color is read.
Undefined == "undefined"

\* Nullable<Event>: the event handed to the form of a new event.
Null == [null |-> TRUE]

eventColors ==
  << "#553333", "#594435", "#3e3b26", "#29443f", "#273944",
     "#332b4d", "#412b4d", "#40233e", "#462324" >>

\* eventColors[i] with a 0-based i: past the end it is undefined.
colorAt(i) == IF i + 1 \in DOMAIN eventColors THEN eventColors[i + 1] ELSE Undefined

\* parseInt('' + Math.random() * eventColors.length): the integer part of the
\* product, 0..8. (A product below 1e-6 prints as "d.ddde-7" and parses to its
\* first digit, up to 9; the model leaves that draw, of chance about 1e-8, out.)
\* The model draws the first palette entries.
RandomIndices == {0, 1}

\* The swatches the user clicks.
ClickedColors == {eventColors[1], eventColors[2]}

\* The texts the user applies.
Descriptions == {"", "A", "B"}

\* event.color, of an object that may have no such member.
colorOf(event) == IF "color" \in DOMAIN event THEN event.color ELSE Undefined

\* event?.color
optColor(event) == IF event = Null THEN Undefined ELSE colorOf(event)

\* event?.description ?? ''
optDescription(event) == IF event = Null THEN "" ELSE event.description

\* An index of array.slice: a negative one counts from the end, and all are
\* held within 0..length.
sliceIndex(k, length) ==
  IF k < 0 THEN (IF length + k < 0 THEN 0 ELSE length + k)
  ELSE IF k > length THEN length ELSE k

\* array.slice(from, to) and array.slice(from), with 0-based indices.
slice(array, from, to) ==
  SubSeq(array, sliceIndex(from, Len(array)) + 1, sliceIndex(to, Len(array)))
sliceFrom(array, from) == SubSeq(array, sliceIndex(from, Len(array)) + 1, Len(array))

\* eventMap[eventKey] ?? []
listEvents(map, eventKey) == IF eventKey \in DOMAIN map THEN map[eventKey] ELSE <<>>

\* { ...map, [eventKey]: events }
withKey(map, eventKey, events) ==
  [k \in DOMAIN map \cup {eventKey} |-> IF k = eventKey THEN events ELSE map[k]]

emptyMap == [k \in {} |-> <<>>]

\* JSON.stringify: the members of an object in the text; a member whose value is
\* undefined is left out.
stringifyEvent(event) ==
  {<<"description", event.description>>} \cup
  (IF colorOf(event) = Undefined THEN {} ELSE {<<"color", colorOf(event)>>})

JSONstringify(map) ==
  { <<k, [i \in 1..Len(map[k]) |-> stringifyEvent(map[k][i])]>> : k \in DOMAIN map }

\* JSON.parse: the objects the text describes.
parseEvent(members) ==
  [n \in {m[1] : m \in members} |-> (CHOOSE m \in members : m[1] = n)[2]]

JSONparse(text) ==
  [k \in {p[1] : p \in text} |->
     LET list == (CHOOSE p \in text : p[1] = k)[2]
     IN  [i \in 1..Len(list) |-> parseEvent(list[i])]]

\* localStorage.getItem('events') ?? '{}'
storedText == IF "events" \in DOMAIN localStorage THEN localStorage.events ELSE JSONstringify(emptyMap)

\* The initializer of the eventMap state.
loadEvents == JSONparse(storedText)

\* The number of events stored in the map.
RECURSIVE totalEvents(_, _)
totalEvents(map, keys) ==
  IF keys = {} THEN 0
  ELSE LET k == CHOOSE x \in keys : TRUE
       IN  Len(map[k]) + totalEvents(map, keys \ {k})

---------------------------------------------------------------------------
(* The state after the first render.                                       *)

\* What the handlers leave in lastOp: the last handler that ran and its inputs.
\* before holds the events that were stored for eventKey when the handler started.
Op(op, eventKey, eventIndex, arg, before) ==
  [op |-> op, eventKey |-> eventKey, eventIndex |-> eventIndex, arg |-> arg,
   before |-> before]

\* A handler that addresses no event.
PlainOp(op) == Op(op, <<>>, 0, "", <<>>)

closedModal == [show |-> FALSE, content |-> Null]

\* useState initializers of App, useModal and useTouchDrag.
Mount ==
  /\ startDay' = today'
  /\ shownDays' = 30 * Q
  /\ touchStart' = Null
  /\ eventMap' = JSONparse(IF "events" \in DOMAIN localStorage'
                           THEN localStorage'.events
                           ELSE JSONstringify(emptyMap))
  /\ modal' = closedModal
  /\ form' = Null

Init ==
  /\ people \in PeopleLists
  /\ today \in Todays
  /\ startDay = today
  /\ shownDays = 30 * Q
  /\ touchStart = Null
  /\ localStorage = [item \in {} |-> {}]
  /\ eventMap = loadEvents
  /\ modal = closedModal
  /\ form = Null
  /\ lastOp = PlainOp("mount")

\* The page is loaded again: the state is rebuilt from localStorage.
Reload ==
  /\ UNCHANGED <<people, today, localStorage>>
  /\ Mount
  /\ lastOp' = PlainOp("mount")

---------------------------------------------------------------------------
(* Scrolling: the wheel and the touch drag.                                *)

\* The model follows the window start no further than MaxShift days from today.
InReach(day) == day - today <= MaxShift /\ today - day <= MaxShift

\* Horizontal wheel deltas, in 1/Q: whole and fractional, small and large.
WheelDeltaXs == {-(100 * Q), -(10 * Q + 1), 0, 10 * Q + 1, 100 * Q}
\* Vertical wheel deltas, in whole days.
WheelDeltaYs == {-1, 0, 1}

\* The updater of setDays, for a change of delta (in 1/Q).
setDays(prevDays, delta) ==
  IF prevDays + delta < 1 * Q THEN 1 * Q
  ELSE IF prevDays + delta > 100 * Q THEN 100 * Q
  ELSE prevDays + delta

\* The wheel listener.
Wheel(deltaX, deltaY) ==
  /\ startDay' = IF deltaY # 0 THEN addDays(startDay, deltaY) ELSE startDay
  /\ InReach(startDay')
  /\ shownDays' = IF deltaX # 0 THEN setDays(shownDays, deltaX) ELSE shownDays
  /\ lastOp' = PlainOp("wheel")
  /\ UNCHANGED <<people, today, touchStart, eventMap, localStorage, modal, form>>

\* The page positions of a touch.
PageXs == {0, 20, 300}
PageYs == {0, 30, 40}

Abs(n) == IF n < 0 THEN -n ELSE n

\* The touchstart listener of useTouchDrag.
TouchStartEvent(x, y) ==
  /\ touchStart' = [x |-> x, y |-> y]
  /\ lastOp' = PlainOp("touchstart")
  /\ UNCHANGED <<people, today, startDay, shownDays, eventMap, localStorage, modal, form>>

\* The vertical half of the drag listener with the sign of the displacement kept.
dragStartDayForward(prevStartDay, y) ==
  IF Abs(y) > 30 THEN addDays(prevStartDay, MathRound(y, 30)) ELSE prevStartDay

\* The listener App hands to useTouchDrag([30, 30], ...).
dragDays(prevDays, x) == IF Abs(x) > 0 THEN setDays(prevDays, MathRound(-x, 30) * Q) ELSE prevDays
dragStartDay(prevStartDay, y) ==
  IF Abs(y) > 30 THEN addDays(prevStartDay, MathRound(-y, 30)) ELSE prevStartDay

\* The anchor after a touchmove at (x, y).
movedAnchor(anchor, x, y) ==
  LET afterX == IF Abs(x - anchor.x) >= 30 THEN [x |-> x, y |-> anchor.y] ELSE anchor
  IN  IF Abs(y - anchor.y) >= 30 THEN [x |-> afterX.x, y |-> y] ELSE afterX

\* The touchmove listener of useTouchDrag.
TouchMoveEvent(x, y) ==
  /\ IF touchStart # Null
     THEN /\ touchStart' = movedAnchor(touchStart, x, y)
          /\ shownDays' = dragDays(shownDays, x - touchStart.x)
          /\ startDay' = dragStartDay(startDay, y - touchStart.y)
          /\ InReach(startDay')
     ELSE UNCHANGED <<touchStart, shownDays, startDay>>
  /\ lastOp' = Op("touchmove", <<>>, 0, "", <<startDay>>)
  /\ UNCHANGED <<people, today, eventMap, localStorage, modal, form>>

\* The touchend listener of useTouchDrag.
TouchEndEvent ==
  /\ touchStart' = Null
  /\ lastOp' = PlainOp("touchend")
  /\ UNCHANGED <<people, today, startDay, shownDays, eventMap, localStorage, modal, form>>

NextWheel == \E deltaX \in WheelDeltaXs, deltaY \in WheelDeltaYs : Wheel(deltaX, deltaY)

NextTouch ==
  \/ \E x \in PageXs, y \in PageYs : TouchStartEvent(x, y)
  \/ \E x \in PageXs, y \in PageYs : TouchMoveEvent(x, y)
  \/ TouchEndEvent

\* The calendar of one configuration under wheel scrolling.
SpecWheel == Init /\ [][NextWheel]_vars

\* The calendar of the repository's people under wheel and touch scrolling.
InitScroll == Init /\ people = RepositoryPeople /\ today = NewDate(2024, 1, 1)

NextScroll == NextWheel \/ NextTouch

SpecScroll == InitScroll /\ [][NextScroll]_vars

---------------------------------------------------------------------------
(* Editing events: handleEditEvent and the callbacks of the form it opens. *)

\* handleSetEvents without the write to localStorage.
handleSetEventsInMemory(newEvents) ==
  /\ eventMap' = newEvents
  /\ UNCHANGED localStorage

\* setEvents and localStorage.setItem('events', JSON.stringify(newEvents)).
handleSetEvents(newEvents) ==
  /\ eventMap' = newEvents
  /\ localStorage' = [item \in DOMAIN localStorage \cup {"events"} |->
                        IF item = "events" THEN JSONstringify(newEvents) ELSE localStorage[item]]

\* useModal: open and close.
open(content) == modal' = [show |-> TRUE, content |-> content]
close == modal' = [modal EXCEPT !.show = FALSE]

\* What the callbacks of handleEditEvent close over: the event and its index,
\* and eventKey, events and eventMap of the render in which the cell was clicked.
handleEditEvent(event, eventIndex, date) ==
  open([event |-> event,
        eventIndex |-> eventIndex,
        eventKey |-> toString(date),
        events |-> listEvents(eventMap, toString(date)),
        eventMap |-> eventMap])

\* The state of a newly mounted EventForm; closing the modal unmounts the form.
mountedForm(initialEvent) ==
  [description |-> IF initialEvent = Null THEN Undefined ELSE initialEvent.description,
   color |-> optColor(initialEvent)]

\* The rows whose cells the model clicks: the first two, where rendered.
ClickedRows == {row \in {0, 1} : row < rowCount}

\* A click on the event cell of a row, outside its events: the form of a new
\* event. The backdrop covers the table while the modal is shown.
ClickCell(row) ==
  LET events == listEvents(eventMap, toString(rowDate(row)))
  IN  /\ ~modal.show
      /\ totalEvents(eventMap, DOMAIN eventMap) < MaxEvents
      /\ handleEditEvent(Null, Len(events), rowDate(row))
      /\ form' = mountedForm(Null)
      /\ lastOp' = Op("new", toString(rowDate(row)), Len(events), "", events)
      /\ UNCHANGED <<people, today, startDay, shownDays, touchStart, eventMap, localStorage>>

\* A click on the square of the event at index (0-based) of a row.
ClickEvent(row, index) ==
  LET events == listEvents(eventMap, toString(rowDate(row)))
  IN  /\ ~modal.show
      /\ index < Len(events)
      /\ handleEditEvent(events[index + 1], index, rowDate(row))
      /\ form' = mountedForm(events[index + 1])
      /\ lastOp' = Op("edit", toString(rowDate(row)), index, "", events)
      /\ UNCHANGED <<people, today, startDay, shownDays, touchStart, eventMap, localStorage>>

\* The textarea's onChange: setDescription.
ChangeDescription(text) ==
  /\ modal.show
  /\ form' = [form EXCEPT !.description = text]
  /\ lastOp' = PlainOp("setDescription")
  /\ UNCHANGED <<people, today, startDay, shownDays, touchStart, eventMap, localStorage, modal>>

\* event?.color ?? eventColors[parseInt('' + Math.random() * eventColors.length)]
appliedColor(event, randomIndex) ==
  IF optColor(event) # Undefined THEN optColor(event) ELSE colorAt(randomIndex)

\* The array with the element at eventIndex replaced by event (appended when
\* eventIndex is the length).
replacedAt(events, eventIndex, event) ==
  slice(events, 0, eventIndex) \o <<event>> \o sliceFrom(events, eventIndex + 1)

\* removedAt with the element after eventIndex taken out.
removedAfter(events, eventIndex) ==
  slice(events, 0, eventIndex + 1) \o sliceFrom(events, eventIndex + 2)

\* removedAt with eventIndex read as a 1-based position.
removedOneBased(events, eventIndex) ==
  slice(events, 0, eventIndex - 1) \o sliceFrom(events, eventIndex)

\* The array without the element at eventIndex.
removedAt(events, eventIndex) ==
  slice(events, 0, eventIndex) \o sliceFrom(events, eventIndex + 1)

\* updatedEvents of onDescriptionApply.
appliedEvents(c, newDescription, randomIndex) ==
  withKey(c.eventMap, c.eventKey,
          replacedAt(c.events, c.eventIndex,
                     [description |-> newDescription,
                      color |-> appliedColor(c.event, randomIndex)]))

\* onDescriptionApply without its test of the description.
onDescriptionApplyUnchecked(newDescription, randomIndex) ==
  /\ handleSetEvents(appliedEvents(modal.content, newDescription, randomIndex))
  /\ close
  /\ form' = Null

\* onDescriptionApply of the form that is open.
onDescriptionApply(newDescription, randomIndex) ==
  IF newDescription # ""
  THEN /\ handleSetEvents(appliedEvents(modal.content, newDescription, randomIndex))
       /\ close
       /\ form' = Null
  ELSE UNCHANGED <<eventMap, localStorage, modal, form>>

\* The click on the check mark: onDescriptionApply(description ?? '').
ClickApply(randomIndex) ==
  LET description == IF form.description = Undefined THEN "" ELSE form.description
  IN  /\ modal.show
      /\ onDescriptionApply(description, randomIndex)
      /\ lastOp' = Op("onDescriptionApply", modal.content.eventKey, modal.content.eventIndex,
                      description, listEvents(eventMap, modal.content.eventKey))
      /\ UNCHANGED <<people, today, startDay, shownDays, touchStart>>

\* updatedEvents of onColorChange.
coloredEvents(c, newColor) ==
  withKey(c.eventMap, c.eventKey,
          replacedAt(c.events, c.eventIndex,
                     [description |-> optDescription(c.event), color |-> newColor]))

\* onColorChange of the form that is open.
onColorChange(newColor) == handleSetEvents(coloredEvents(modal.content, newColor))

\* The click on a color swatch: setColor and onColorChange.
ClickColor(currentColor) ==
  /\ modal.show
  /\ form' = [form EXCEPT !.color = currentColor]
  /\ onColorChange(currentColor)
  /\ lastOp' = Op("onColorChange", modal.content.eventKey, modal.content.eventIndex,
                  currentColor, listEvents(eventMap, modal.content.eventKey))
  /\ UNCHANGED <<people, today, startDay, shownDays, touchStart, modal>>

\* updatedEvents of onDelete.
deletedEvents(c) == withKey(c.eventMap, c.eventKey, removedAt(c.events, c.eventIndex))

\* onDelete of the form that is open.
onDelete ==
  /\ handleSetEvents(deletedEvents(modal.content))
  /\ close
  /\ form' = Null

\* The click on the bin.
ClickDelete ==
  /\ modal.show
  /\ onDelete
  /\ lastOp' = Op("onDelete", modal.content.eventKey, modal.content.eventIndex, "",
                  listEvents(eventMap, modal.content.eventKey))
  /\ UNCHANGED <<people, today, startDay, shownDays, touchStart>>

\* The click on the backdrop of the modal.
ClickBackdrop ==
  /\ modal.show
  /\ close
  /\ form' = Null
  /\ lastOp' = PlainOp("close")
  /\ UNCHANGED <<people, today, startDay, shownDays, touchStart, eventMap, localStorage>>

\* The keydown listener, for the Escape key.
KeydownEscape ==
  /\ close
  /\ form' = Null
  /\ lastOp' = PlainOp("close")
  /\ UNCHANGED <<people, today, startDay, shownDays, touchStart, eventMap, localStorage>>

NextEvents ==
  \/ \E row \in ClickedRows : ClickCell(row)
  \/ \E row \in ClickedRows, index \in 0..(MaxEvents - 1) : ClickEvent(row, index)
  \/ \E text \in Descriptions : ChangeDescription(text)
  \/ \E randomIndex \in RandomIndices : ClickApply(randomIndex)
  \/ \E currentColor \in ClickedColors : ClickColor(currentColor)
  \/ ClickDelete
  \/ ClickBackdrop
  \/ KeydownEscape
  \/ Reload

\* The event store of one session after another, in the repository's configuration.
InitEvents == Init /\ people = RepositoryPeople /\ today = NewDate(2024, 1, 1)

SpecEvents == InitEvents /\ [][NextEvents]_vars

Next == NextWheel \/ NextTouch \/ NextEvents

Spec == Init /\ [][Next]_vars

---------------------------------------------------------------------------
(* Claims about the rows and their recurring annotations.                  *)

\* The people of the configured list.
Persons == {people[i] : i \in DOMAIN people}

\* The displayed dates.
DisplayedDates == {rows[i] : i \in DOMAIN rows}

\* a is a calendar day strictly after b, by year, then month, then day.
StrictlyAfter(a, b) ==
  LET ca == Civil(a)
      cb == Civil(b)
  IN  \/ ca.year > cb.year
      \/ ca.year = cb.year /\ ca.month > cb.month
      \/ ca.year = cb.year /\ ca.month = cb.month /\ ca.date > cb.date

SameMonthAndDay(a, b) == Civil(a).month = Civil(b).month /\ Civil(a).date = Civil(b).date

Listed(cell, person) == \E j \in DOMAIN cell : cell[j].name = person.name

\* The days of a year.
DaysOfYear(year) == NewDate(year, 0, 1) .. (NewDate(year + 1, 0, 1) - 1)

\* The displayed years.
DisplayedYears == {Civil(d).year : d \in DisplayedDates}

IsLeapYear(year) == NewDate(year + 1, 0, 1) - NewDate(year, 0, 1) = 366

\* The person is alive all through the year.
AliveThrough(person, year) == ~hasDeathDay(person) \/ Civil(person.deathDay).year > year

\* The dates of a year on which the birthday of a person is listed.
BirthdayDates(person, year) ==
  {d \in DaysOfYear(year) : Listed(birthdayCell(d), person)}

\* C1, the rule of a row: a birthday is listed on a displayed date exactly when
\* month and day are those of the birth, the birth year is not after the date's
\* year and the person has no death date or one strictly after the date; the
\* entry shows the years between the birth year and the date's year; no
\* birthday is listed on or after the death date.
C1_RowRule ==
  \A date \in DisplayedDates :
    LET cell == birthdayCell(date)
    IN  \A person \in Persons :
          /\ Listed(cell, person) <=>
               /\ SameMonthAndDay(person.birthday, date)
               /\ Civil(person.birthday).year <= Civil(date).year
               /\ (~hasDeathDay(person) \/ StrictlyAfter(person.deathDay, date))
          /\ \A j \in DOMAIN cell :
               cell[j].name = person.name =>
                 cell[j].years = Civil(date).year - Civil(person.birthday).year
          /\ (hasDeathDay(person) /\ ~StrictlyAfter(person.deathDay, date))
               => ~Listed(cell, person)

\* C1 as stated: the rule of a row, and in every displayed year from the birth
\* year on, a person alive through the year has the birthday on exactly one date.
C1_OncePerYear ==
  /\ C1_RowRule
  /\ \A year \in DisplayedYears : \A person \in Persons :
       (Civil(person.birthday).year <= year /\ AliveThrough(person, year))
         => Cardinality(BirthdayDates(person, year)) = 1

\* February 29 (month index 1).
BornOnLeapDay(person) == Civil(person.birthday).month = 1 /\ Civil(person.birthday).date = 29

\* C1, amended: the rule of a row, and in every displayed year from the birth
\* year on, a person alive through the year has the birthday on exactly one
\* date, except that a birthday of February 29 is on no date of a year that is
\* not a leap year.
C1_OncePerYearButLeapDay ==
  /\ C1_RowRule
  /\ \A year \in DisplayedYears : \A person \in Persons :
       (Civil(person.birthday).year <= year /\ AliveThrough(person, year))
         => Cardinality(BirthdayDates(person, year)) =
              (IF BornOnLeapDay(person) /\ ~IsLeapYear(year) THEN 0 ELSE 1)

\* A leap-day birthday is displayed with its years in a leap year, next to a
\* displayed year that is no leap year and holds no birthday of that person.
C1_Witness ==
  \E person \in Persons :
    /\ BornOnLeapDay(person)
    /\ \E date \in DisplayedDates :
         birthdayCell(date) =
           <<[name |-> person.name,
              years |-> Civil(date).year - Civil(person.birthday).year]>>
    /\ \E year \in DisplayedYears :
         /\ ~IsLeapYear(year)
         /\ AliveThrough(person, year)
         /\ BirthdayDates(person, year) = {}

\* C2: a death anniversary is listed on a displayed date exactly when the person
\* has a death date of the same month and day whose year is not after the
\* date's year; the entry carries the years since the death year (0 on the day
\* of the death); where birth and death share month and day, that day of every
\* later year lists the death anniversary and no birthday.
C2_DeathRule ==
  \A date \in DisplayedDates :
    LET cell == deathCell(date)
    IN  \A person \in Persons :
          /\ Listed(cell, person) <=>
               /\ hasDeathDay(person)
               /\ SameMonthAndDay(person.deathDay, date)
               /\ Civil(person.deathDay).year <= Civil(date).year
          /\ \A j \in DOMAIN cell :
               cell[j].name = person.name =>
                 /\ cell[j].years = Civil(date).year - Civil(person.deathDay).year
                 /\ (date = person.deathDay => cell[j].years = 0)
          /\ ( /\ hasDeathDay(person)
               /\ SameMonthAndDay(person.birthday, person.deathDay)
               /\ SameMonthAndDay(person.deathDay, date)
               /\ Civil(date).year > Civil(person.deathDay).year )
               => /\ Listed(cell, person)
                  /\ ~Listed(birthdayCell(date), person)

\* The day of a death is displayed with 0 years, and a later anniversary of a
\* death on the birthday's month and day with its years and no birthday.
C2_Witness ==
  \E person \in Persons :
    /\ hasDeathDay(person)
    /\ SameMonthAndDay(person.birthday, person.deathDay)
    /\ \E date \in DisplayedDates :
         /\ Civil(date).year > Civil(person.deathDay).year
         /\ deathCell(date) =
              <<[name |-> person.name,
                 years |-> Civil(date).year - Civil(person.deathDay).year]>>
         /\ birthdayCell(date) = <<>>

C2_WitnessDayOfDeath ==
  \E person \in Persons :
    /\ hasDeathDay(person)
    /\ person.deathDay \in DisplayedDates
    /\ deathCell(person.deathDay) = <<[name |-> person.name, years |-> 0]>>

\* C3: the rendered rows are as many as the window length says, and row i is
\* the day i days after the start of the window.
C3_RowsAreTheWindow ==
  /\ Len(rows) * Q = shownDays
  /\ \A i \in 0..(Len(rows) - 1) : rows[i + 1] = addDays(startDay, i)

---------------------------------------------------------------------------
(* Claims about the event store.                                           *)

\* The step is a click on the check mark that applies a description.
AppliesDescription == lastOp'.op = "onDescriptionApply" /\ lastOp'.arg # ""

\* The form that is open is the form of a new event.
FormOfNewEvent == modal.show /\ modal.content.event = Null

\* The events stored for the day of the handler, before and after the step.
StoredBefore == listEvents(eventMap, lastOp'.eventKey)
StoredAfter == listEvents(eventMap', lastOp'.eventKey)

\* C4: applying a description d in the form of a new event, with the color c
\* chosen in the form, leaves the events the day had when the form was opened,
\* followed by the one event {description: d, color: c}.
C4_CreateWithChosenColor ==
  [][ (AppliesDescription /\ FormOfNewEvent /\ form.color # Undefined)
        => StoredAfter = modal.content.events \o
                           <<[description |-> lastOp'.arg, color |-> form.color]>> ]_vars

\* C5: applying an empty description in the form of a new event changes neither
\* the event map, on any day, nor localStorage.
C5_EmptyCreateIsNoOp ==
  [][ (lastOp'.op = "onDescriptionApply" /\ lastOp'.arg = "" /\ FormOfNewEvent)
        => (eventMap' = eventMap /\ localStorage' = localStorage) ]_vars

\* An empty description was applied in the form of a new event, on a day with events.
C5_Witness ==
  /\ lastOp.op = "onDescriptionApply"
  /\ lastOp.arg = ""
  /\ FormOfNewEvent
  /\ lastOp.before # <<>>

\* The step updates an existing event: a color click or an applied description
\* in a form that was opened on an event.
UpdatesEvent ==
  /\ modal.show
  /\ modal.content.event # Null
  /\ (lastOp'.op = "onColorChange" \/ AppliesDescription)

\* C6: an update keeps the length of the day's sequence and every other event;
\* a new description keeps the color that is stored for the event, a new color
\* the description that is stored for it.
C6_UpdateMergesStored ==
  [][ UpdatesEvent =>
        LET i == lastOp'.eventIndex + 1
        IN  /\ Len(StoredAfter) = Len(StoredBefore)
            /\ \A j \in DOMAIN StoredBefore : j # i => StoredAfter[j] = StoredBefore[j]
            /\ lastOp'.op = "onDescriptionApply" =>
                 /\ StoredAfter[i].description = lastOp'.arg
                 /\ colorOf(StoredAfter[i]) = colorOf(StoredBefore[i])
            /\ lastOp'.op = "onColorChange" =>
                 /\ colorOf(StoredAfter[i]) = lastOp'.arg
                 /\ StoredAfter[i].description = StoredBefore[i].description ]_vars

\* C7: an update of the color at an index past the end of the stored sequence
\* leaves the stored sequence as it is.
C7_UpdatePastEndChangesNothing ==
  [][ (lastOp'.op = "onColorChange" /\ lastOp'.eventIndex >= Len(StoredBefore))
        => StoredAfter = StoredBefore ]_vars

\* The sequence without its element at index (0-based): the later ones move down.
Without(events, index) ==
  [j \in 1..(Len(events) - 1) |-> IF j <= index THEN events[j] ELSE events[j + 1]]

\* C8: a delete at an index of the stored sequence leaves that sequence without
\* the element at the index, the others in their order.
C8_DeleteRemovesOne ==
  (lastOp.op = "onDelete" /\ lastOp.eventIndex < Len(lastOp.before))
    => listEvents(eventMap, lastOp.eventKey) = Without(lastOp.before, lastOp.eventIndex)

\* Of the events A and B of a day, the delete at index 0 has left B with its color.
C8_Witness ==
  /\ lastOp.op = "onDelete"
  /\ lastOp.eventIndex = 0
  /\ Len(lastOp.before) = 2
  /\ lastOp.before[1].description = "A"
  /\ lastOp.before[2].description = "B"
  /\ listEvents(eventMap, lastOp.eventKey) = <<lastOp.before[2]>>

\* C9: a delete at an index past the end of the stored sequence (of an empty or
\* absent day, or in the form of a new event) leaves what is read for the day.
C9_DeletePastEndIsNoOp ==
  (lastOp.op = "onDelete" /\ lastOp.eventIndex >= Len(lastOp.before))
    => listEvents(eventMap, lastOp.eventKey) = lastOp.before

\* A delete on a day that had no events has stored an empty sequence for it.
C9_Witness ==
  /\ lastOp.op = "onDelete"
  /\ lastOp.before = <<>>
  /\ lastOp.eventKey \in DOMAIN eventMap
  /\ eventMap[lastOp.eventKey] = <<>>

\* Two maps hold the same days, and for each day the same events in order.
SameContents(a, b) ==
  /\ DOMAIN a = DOMAIN b
  /\ \A k \in DOMAIN a :
       /\ Len(a[k]) = Len(b[k])
       /\ \A i \in DOMAIN a[k] :
            /\ a[k][i].description = b[k][i].description
            /\ colorOf(a[k][i]) = colorOf(b[k][i])

\* C10: what a load of localStorage yields has the contents of the event map.
C10_StorageMirrorsMap == SameContents(loadEvents, eventMap)

\* A session that started from the events an earlier session stored.
C10_Witness ==
  /\ lastOp.op = "mount"
  /\ \E k \in DOMAIN eventMap : eventMap[k] # <<>>
  /\ "events" \in DOMAIN localStorage

---------------------------------------------------------------------------
(* The scrolling claims. *)

clamp(n, low, high) == IF n < low THEN low ELSE IF n > high THEN high ELSE n

\* C11: after every wheel or touch-drag input the window length is a whole
\* number of days from 1 to 100, and a wheel input with horizontal delta dx
\* sets it to clamp(windowLength + round(dx), 1, 100).
C11_WindowLengthIsClampedInteger ==
  [][ /\ shownDays' % Q = 0
      /\ shownDays' >= 1 * Q
      /\ shownDays' <= 100 * Q
      /\ \A deltaX \in WheelDeltaXs, deltaY \in WheelDeltaYs :
           (lastOp'.op = "wheel" /\ Wheel(deltaX, deltaY)) =>
             shownDays' = clamp(shownDays + MathRound(deltaX, Q) * Q, 1 * Q, 100 * Q) ]_vars

\* The whole number nearest to -pixels / 30, a half rounding up.
dragSteps(pixels) ==
  CHOOSE n \in -(Abs(pixels) \div 30 + 1)..(Abs(pixels) \div 30 + 1) :
    30 * n - 15 <= -pixels /\ -pixels < 30 * n + 15

\* C12 as stated: every scroll input advances the start date by its vertical
\* delta dy, so that the start date is the initial one plus the sum of all dy;
\* an input with no horizontal delta leaves the window length unchanged.
C12_StartAdvancesByDy ==
  [][ /\ \A deltaX \in WheelDeltaXs, deltaY \in WheelDeltaYs :
           (lastOp'.op = "wheel" /\ Wheel(deltaX, deltaY)) =>
             /\ startDay' = startDay + deltaY
             /\ (deltaX = 0 => shownDays' = shownDays)
      /\ \A x \in PageXs, y \in PageYs :
           (lastOp'.op = "touchmove" /\ touchStart # Null /\ TouchMoveEvent(x, y)) =>
             /\ startDay' = startDay + (y - touchStart.y)
             /\ (x - touchStart.x = 0 => shownDays' = shownDays) ]_vars

\* C12: a wheel input advances the start date by its vertical delta; a touch
\* move whose vertical displacement y from the anchor exceeds 30 px moves the
\* start date by round(-y / 30) days and a smaller one leaves it; an input
\* with no vertical delta leaves the start date unchanged, and an input with
\* no horizontal delta leaves the window length unchanged.
C12_StartFollowsWheelAndDrag ==
  [][ /\ \A deltaX \in WheelDeltaXs, deltaY \in WheelDeltaYs :
           (lastOp'.op = "wheel" /\ Wheel(deltaX, deltaY)) =>
             /\ startDay' = startDay + deltaY
             /\ (deltaX = 0 => shownDays' = shownDays)
      /\ \A x \in PageXs, y \in PageYs :
           (lastOp'.op = "touchmove" /\ touchStart # Null /\ TouchMoveEvent(x, y)) =>
             /\ startDay' = startDay + (IF Abs(y - touchStart.y) > 30
                                        THEN dragSteps(y - touchStart.y) ELSE 0)
             /\ (x - touchStart.x = 0 => shownDays' = shownDays) ]_vars

\* A drag downwards has moved the window back in time.
C12_Witness ==
  /\ lastOp.op = "touchmove"
  /\ touchStart # Null
  /\ startDay = lastOp.before[1] - 1

---------------------------------------------------------------------------
(* The stored descriptions. *)

EmptyDescriptions(map) ==
  {<<k, i>> \in (DOMAIN map) \X (1..MaxEvents) : i <= Len(map[k]) /\ map[k][i].description = ""}

\* C13: no event of the event map, and none of the events that localStorage
\* holds, has an empty description.
C13_NoEmptyDescriptionStored ==
  /\ EmptyDescriptions(eventMap) = {}
  /\ EmptyDescriptions(loadEvents) = {}

---------------------------------------------------------------------------
(* The anchor of a touch drag. *)

\* C14: a touchmove that changes the window length resets the horizontal
\* anchor to the position of the touch, and one that changes the start day
\* resets the vertical anchor, so that a later touchmove at the same position
\* has no displacement left to convert.
C14_StepResetsAnchor ==
  [][ \A x \in PageXs, y \in PageYs :
        (lastOp'.op = "touchmove" /\ touchStart # Null /\ TouchMoveEvent(x, y)) =>
          /\ (shownDays' # shownDays => touchStart'.x = x)
          /\ (startDay' # startDay => touchStart'.y = y) ]_vars

====
